---- MODULE Spec2Model ----
(***************************************************************************)
(* Model of aionextpay/nextpay.py: the NextPay client.                     *)
(*                                                                         *)
(* A client object holds token, amount and callback_uri.  purchase, verify *)
(* and refund are coroutines: each builds a FormData, opens a              *)
(* ClientSession in an `async with`, POSTs, awaits the JSON answer and     *)
(* branches on result['code'].  Several coroutines of one client may be    *)
(* in flight at once; each slot of Calls is one coroutine frame.           *)
(*                                                                         *)
(* Strings of the program are TLA+ strings.  An f-string is the sequence   *)
(* of its parts, an interpolated integer being converted with Str.         *)
(* The absent currency argument (None) is the string "None".               *)
(***************************************************************************)
EXTENDS Integers, Sequences, FiniteSets, TLC

\* ------------------------------------------------------------------ bounds
MaxCalls == 2
MaxExt == 2

Calls == 1..MaxCalls

\* --------------------------------------------------------------- constants
PurchaseUrl == "https://nextpay.org/nx/gateway/token"
VerifyUrl == "https://nextpay.org/nx/gateway/verify"
RefundUrl == "https://nextpay.org/nx/gateway/verify"

\* the list of line 62, in its order
ValidKeys ==
  <<"currency", "phone", "custom_json_fields", "payer_name", "payer_desc",
    "auto_verify", "allowed_card">>

PurchaseTokenCodes == <<-33, -35, -38, -39, -40, -47>>
RefundFailedCodes == <<-91, -92>>
VerifyCurrencies == <<"IRT", "IRR">>

\* Python's `x in [a, b, ...]`
InList(x, list) == \E i \in 1..Len(list) : list[i] = x

\* str() of an integer, as an f-string interpolates it
Str(n) == ToString(n)

\* ------------------------------------------------------------------ inputs
Tokens == {"tokA", "tokB"}
Amounts == {"1000", "250"}
CallbackUris == {"https://shop.example/cb"}
OrderIds == {"order-7"}
TransIds == {"abc123", "f7e2"}
ExtValues == {"v"}
\* keyword names a caller may pass: the seven accepted ones and two others
ExtKeys ==
  {"currency", "phone", "custom_json_fields", "payer_name", "payer_desc",
   "auto_verify", "allowed_card", "email", "card_number"}
CurrencyArgs == {"None", "IRT", "IRR", "USD", "irt"}
\* every code some table names, and codes no table names
Codes ==
  {-1, -32, -73, -33, -35, -38, -39, -40, -47,
   0, -2, -4, -24, -25, -27,
   -90, -91, -92, -93,
   -99, 1}

\* kwargs: a dict keeps insertion order and has no key twice
RECURSIVE KwargsOfLen(_, _)
KwargsOfLen(keys, n) ==
  IF n = 0 THEN {<<>>}
  ELSE { Append(kw, <<k, v>>) :
           kw \in KwargsOfLen(keys, n - 1), k \in keys, v \in ExtValues }

NoDupKeys(kw) == \A i, j \in 1..Len(kw) : i # j => kw[i][1] # kw[j][1]

Kwargs(keys) ==
  { kw \in UNION { KwargsOfLen(keys, n) : n \in 0..MaxExt } : NoDupKeys(kw) }

Results(codes, tids) == { [code |-> k, trans_id |-> t] : k \in codes, t \in tids }

\* ------------------------------------------------------------------- state
VARIABLES
  self,      \* the client object: token, amount, callback_uri
  pc,        \* per coroutine: "idle", "opened", "awaiting", "done"
  call,      \* per coroutine: the operation and its arguments
  request,   \* per coroutine: url and FormData fields of the POST
  session,   \* per coroutine: the ClientSession it created (0: none)
  sessions,  \* the ClientSessions that are open
  posts,     \* per coroutine: POSTs issued
  result,    \* per coroutine: the JSON answer, once received
  outcome    \* per coroutine: what the coroutine returned or raised

vars == <<self, pc, call, request, session, sessions, posts, result, outcome>>

NoCall == [op |-> "none", id |-> "", kwargs |-> <<>>, currency |-> "None"]
NoRequest == [url |-> "", data |-> <<>>]
NoResult == [got |-> FALSE, code |-> 0, trans_id |-> ""]
NoOutcome == [kind |-> "none", type |-> "", msg |-> <<>>, value |-> ""]

\* `return value` and `raise type(msg)`; True is the string "True" of type bool
Returned(type, value) ==
  [kind |-> "return", type |-> type, msg |-> <<>>, value |-> value]
Raised(type, msg) ==
  [kind |-> "raise", type |-> type, msg |-> msg, value |-> ""]

\* ------------------------------------------------------- request building
\* the loop of lines 61-65 from kwargs item i on: fields are added until a
\* key outside the list raises
RECURSIVE AddExtensions(_, _, _)
\* faulty variant: a key outside the list is skipped instead of raising
AddExtensionsSkipping(data, kwargs, i) ==
  [raised |-> FALSE, key |-> "",
   data |-> data \o SelectSeq(SubSeq(kwargs, i, Len(kwargs)),
                               LAMBDA kv : InList(kv[1], ValidKeys))]
AddExtensions(data, kwargs, i) ==
  IF i > Len(kwargs) THEN [raised |-> FALSE, key |-> "", data |-> data]
  ELSE IF InList(kwargs[i][1], ValidKeys)
       THEN AddExtensions(Append(data, kwargs[i]), kwargs, i + 1)
       ELSE [raised |-> TRUE, key |-> kwargs[i][1], data |-> data]

PurchaseData(client, order_id, kwargs) ==
  LET base == <<  <<"api_key", client.token>>,
                  <<"amount", client.amount>>,
                  <<"order_id", order_id>>  >>
      ext == AddExtensions(base, kwargs, 1)
  IN IF ext.raised THEN ext
     ELSE [ext EXCEPT !.data = Append(@, <<"callback_uri", client.callback_uri>>)]

\* faulty variant: any currency given is sent
VerifyDataAnyCurrency(client, trans_id, currency) ==
  LET base == <<  <<"api_key", client.token>>,
                  <<"amount", client.amount>>,
                  <<"trans_id", trans_id>>  >>
  IN IF currency # "None" THEN Append(base, <<"currency", currency>>) ELSE base
VerifyData(client, trans_id, currency) ==
  LET base == <<  <<"api_key", client.token>>,
                  <<"amount", client.amount>>,
                  <<"trans_id", trans_id>>  >>
  IN IF InList(currency, VerifyCurrencies)
     THEN Append(base, <<"currency", currency>>)
     ELSE base

\* faulty variant: the refund flag is added first
RefundDataFlagFirst(client, trans_id) ==
  <<  <<"refund_request", "yes_money_back">>,
      <<"api_key", client.token>>,
      <<"amount", client.amount>>,
      <<"trans_id", trans_id>>  >>
RefundData(client, trans_id) ==
  <<  <<"api_key", client.token>>,
      <<"amount", client.amount>>,
      <<"trans_id", trans_id>>,
      <<"refund_request", "yes_money_back">>  >>

\* ------------------------------------------------- response classification
\* faulty variant: -47 is missing from the InvalidToken codes
PurchaseClassifyShortList(client, res) ==
  IF res.code = -1 THEN Returned("str", res.trans_id)
  ELSE IF res.code = -32
    THEN Raised("InvalidCallbackUri", <<"callback_uri is invalid">>)
  ELSE IF res.code = -73
    THEN Raised("InvalidCallbackUri",
                <<"callback_uri has a server error or its too long">>)
  ELSE IF InList(res.code, <<-33, -35, -38, -39, -40>>)
    THEN Raised("InvalidToken",
                <<"Token ", client.token, " is invalid. error code : ", Str(res.code)>>)
  ELSE Raised("UnknownHandled", <<"Un-handled error code : ", Str(res.code)>>)
PurchaseClassify(client, res) ==
  IF res.code = -1 THEN Returned("str", res.trans_id)
  ELSE IF res.code = -32
    THEN Raised("InvalidCallbackUri", <<"callback_uri is invalid">>)
  ELSE IF res.code = -73
    THEN Raised("InvalidCallbackUri",
                <<"callback_uri has a server error or its too long">>)
  ELSE IF InList(res.code, PurchaseTokenCodes)
    THEN Raised("InvalidToken",
                <<"Token ", client.token, " is invalid. error code : ", Str(res.code)>>)
  ELSE Raised("UnknownHandled", <<"Un-handled error code : ", Str(res.code)>>)

\* faulty variant: the branches of -24 and -25 are exchanged
VerifyClassifySwapped(res) ==
  IF res.code = 0 THEN Returned("bool", "True")
  ELSE IF res.code = -2
    THEN Raised("PurchaseDeclined", <<"Purchase declined by user or bank">>)
  ELSE IF res.code = -4 THEN Raised("PurchaseCanceled", <<"Purchase canceled">>)
  ELSE IF res.code = -25 THEN Raised("InvalidPrice", <<"Entered price is invalid">>)
  ELSE IF res.code = -24
    THEN Raised("PurchaseAlreadyMade", <<"Purchase is already finished and paid">>)
  ELSE IF res.code = -27 THEN Raised("InvalidTransId", <<"trans_id is invalid">>)
  ELSE Raised("UnknownHandled", <<"Un-handled error code : ", Str(res.code)>>)
\* faulty variant: every code from -1 up counts as success
VerifyClassifyTruthy(res) ==
  IF res.code >= -1 THEN Returned("bool", "True")
  ELSE IF res.code = -2
    THEN Raised("PurchaseDeclined", <<"Purchase declined by user or bank">>)
  ELSE IF res.code = -4 THEN Raised("PurchaseCanceled", <<"Purchase canceled">>)
  ELSE IF res.code = -24 THEN Raised("InvalidPrice", <<"Entered price is invalid">>)
  ELSE IF res.code = -25
    THEN Raised("PurchaseAlreadyMade", <<"Purchase is already finished and paid">>)
  ELSE IF res.code = -27 THEN Raised("InvalidTransId", <<"trans_id is invalid">>)
  ELSE Raised("UnknownHandled", <<"Un-handled error code : ", Str(res.code)>>)
VerifyClassify(res) ==
  IF res.code = 0 THEN Returned("bool", "True")
  ELSE IF res.code = -2
    THEN Raised("PurchaseDeclined", <<"Purchase declined by user or bank">>)
  ELSE IF res.code = -4 THEN Raised("PurchaseCanceled", <<"Purchase canceled">>)
  ELSE IF res.code = -24 THEN Raised("InvalidPrice", <<"Entered price is invalid">>)
  ELSE IF res.code = -25
    THEN Raised("PurchaseAlreadyMade", <<"Purchase is already finished and paid">>)
  ELSE IF res.code = -27 THEN Raised("InvalidTransId", <<"trans_id is invalid">>)
  ELSE Raised("UnknownHandled", <<"Un-handled error code : ", Str(res.code)>>)

\* faulty variant: the verify success code 0 also counts as a refund
RefundClassifyVerifySuccess(res) ==
  IF res.code = -90 \/ res.code = 0 THEN Returned("bool", "True")
  ELSE IF InList(res.code, RefundFailedCodes)
    THEN Raised("RefundFailed", <<"Refund failed">>)
  ELSE IF res.code = -93
    THEN Raised("NotEnoughBalance", <<"Not enough balance to refund">>)
  ELSE IF res.code = -27 THEN Raised("InvalidTransId", <<"trans_id is invalid">>)
  ELSE Raised("UnknownHandled", <<"Un-handled error code : ", Str(res.code)>>)
RefundClassify(res) ==
  IF res.code = -90 THEN Returned("bool", "True")
  ELSE IF InList(res.code, RefundFailedCodes)
    THEN Raised("RefundFailed", <<"Refund failed">>)
  ELSE IF res.code = -93
    THEN Raised("NotEnoughBalance", <<"Not enough balance to refund">>)
  ELSE IF res.code = -27 THEN Raised("InvalidTransId", <<"trans_id is invalid">>)
  ELSE Raised("UnknownHandled", <<"Un-handled error code : ", Str(res.code)>>)

\* ------------------------------------------------------------ construction
\* __init__: plain assignment of the three attributes
NextPay(token, amount, callback_uri) ==
  [token |-> token, amount |-> amount, callback_uri |-> callback_uri]

InitWith(tokens, amounts) ==
  /\ self \in { NextPay(t, a, u) : t \in tokens, a \in amounts, u \in CallbackUris }
  /\ pc = [c \in Calls |-> "idle"]
  /\ call = [c \in Calls |-> NoCall]
  /\ request = [c \in Calls |-> NoRequest]
  /\ session = [c \in Calls |-> 0]
  /\ sessions = {}
  /\ posts = [c \in Calls |-> 0]
  /\ result = [c \in Calls |-> NoResult]
  /\ outcome = [c \in Calls |-> NoOutcome]

\* ---------------------------------------------------------------- sessions
\* ClientSession(headers=self.headers): a new object, distinct from every
\* session that is still open (its identity: the least free one)
NewSession(open) ==
  CHOOSE s \in 1..MaxCalls :
    /\ s \notin open
    /\ \A t \in 1..MaxCalls : t \notin open => s <= t

\* entering `async with ClientSession(...) as aiohttp` with the request built
OpenSession(c, op, url, data) ==
  LET s == NewSession(sessions) IN
  /\ pc' = [pc EXCEPT ![c] = "opened"]
  /\ call' = [call EXCEPT ![c] = op]
  /\ request' = [request EXCEPT ![c] = [url |-> url, data |-> data]]
  /\ session' = [session EXCEPT ![c] = s]
  /\ sessions' = sessions \cup {s}
  /\ UNCHANGED <<self, posts, result, outcome>>

\* leaving both `async with` blocks, by return or by exception: the response
\* is released, the session closed, and the coroutine ends with `out`
\* faulty variant: the session is closed on return only, not on an exception
ExitLeavingOpen(c, out) ==
  /\ pc' = [pc EXCEPT ![c] = "done"]
  /\ outcome' = [outcome EXCEPT ![c] = out]
  /\ sessions' = IF out.kind = "raise" THEN sessions ELSE sessions \ {session[c]}
  /\ UNCHANGED <<call, request, session, posts>>
Exit(c, out) ==
  /\ pc' = [pc EXCEPT ![c] = "done"]
  /\ outcome' = [outcome EXCEPT ![c] = out]
  /\ sessions' = sessions \ {session[c]}
  /\ UNCHANGED <<call, request, session, posts>>

\* ----------------------------------------------------------------- actions
\* purchase(order_id, **kwargs) up to the first await
Purchase(c, order_id, kwargs) ==
  LET built == PurchaseData(self, order_id, kwargs)
      op == [op |-> "purchase", id |-> order_id, kwargs |-> kwargs,
             currency |-> "None"]
  IN
  /\ pc[c] = "idle"
  /\ IF built.raised
     THEN /\ pc' = [pc EXCEPT ![c] = "done"]
          /\ call' = [call EXCEPT ![c] = op]
          /\ outcome' = [outcome EXCEPT ![c] =
               Raised("InvalidKey", <<"key ", built.key, " is invalid for NextPay.org">>)]
          /\ UNCHANGED <<self, request, session, sessions, posts, result>>
     ELSE OpenSession(c, op, PurchaseUrl, built.data)

\* verify(trans_id, currency) up to the first await
Verify(c, trans_id, currency) ==
  /\ pc[c] = "idle"
  /\ OpenSession(c,
       [op |-> "verify", id |-> trans_id, kwargs |-> <<>>, currency |-> currency],
       VerifyUrl, VerifyData(self, trans_id, currency))

\* refund(trans_id) up to the first await
Refund(c, trans_id) ==
  /\ pc[c] = "idle"
  /\ OpenSession(c,
       [op |-> "refund", id |-> trans_id, kwargs |-> <<>>, currency |-> "None"],
       RefundUrl, RefundData(self, trans_id))

\* aiohttp.post(url=url, data=data): the request goes out
Post(c) ==
  /\ pc[c] = "opened"
  /\ pc' = [pc EXCEPT ![c] = "awaiting"]
  /\ posts' = [posts EXCEPT ![c] = @ + 1]
  /\ UNCHANGED <<self, call, request, session, sessions, result, outcome>>

Got(res) == [got |-> TRUE, code |-> res.code, trans_id |-> res.trans_id]

\* result = await respond.json() and the branches on result['code']
\* faulty variant: the trans_id is kept on the client
PurchaseRespondStoring(c, res) ==
  /\ pc[c] = "awaiting"
  /\ call[c].op = "purchase"
  /\ result' = [result EXCEPT ![c] = Got(res)]
  /\ Exit(c, PurchaseClassify(self, res))
  /\ self' = IF res.code = -1
             THEN [token |-> self.token, amount |-> self.amount,
                   callback_uri |-> self.callback_uri, trans_id |-> res.trans_id]
             ELSE self
PurchaseRespond(c, res) ==
  /\ pc[c] = "awaiting"
  /\ call[c].op = "purchase"
  /\ result' = [result EXCEPT ![c] = Got(res)]
  /\ Exit(c, PurchaseClassify(self, res))
  /\ UNCHANGED self

VerifyRespond(c, res) ==
  /\ pc[c] = "awaiting"
  /\ call[c].op = "verify"
  /\ result' = [result EXCEPT ![c] = Got(res)]
  /\ Exit(c, VerifyClassify(res))
  /\ UNCHANGED self

\* faulty variant: a failed refund is posted again
RefundRespondRetrying(c, res) ==
  /\ pc[c] = "awaiting"
  /\ call[c].op = "refund"
  /\ result' = [result EXCEPT ![c] = Got(res)]
  /\ IF InList(res.code, RefundFailedCodes)
     THEN /\ pc' = [pc EXCEPT ![c] = "opened"]
          /\ UNCHANGED <<call, request, session, sessions, posts, outcome>>
     ELSE Exit(c, RefundClassify(res))
  /\ UNCHANGED self
RefundRespond(c, res) ==
  /\ pc[c] = "awaiting"
  /\ call[c].op = "refund"
  /\ result' = [result EXCEPT ![c] = Got(res)]
  /\ Exit(c, RefundClassify(res))
  /\ UNCHANGED self

\* the transport fails (no connection, broken answer): the exception leaves
\* the `async with` blocks
Fault(c) ==
  /\ pc[c] \in {"opened", "awaiting"}
  /\ Exit(c, Raised("ClientError", <<>>))
  /\ UNCHANGED <<self, result>>

\* the awaiting task is cancelled: CancelledError leaves the `async with` blocks
Cancel(c) ==
  /\ pc[c] \in {"opened", "awaiting"}
  /\ Exit(c, Raised("CancelledError", <<>>))
  /\ UNCHANGED <<self, result>>

\* the caller has the value or the exception; the frame and its locals are gone
Complete(c) ==
  /\ pc[c] = "done"
  /\ pc' = [pc EXCEPT ![c] = "idle"]
  /\ call' = [call EXCEPT ![c] = NoCall]
  /\ request' = [request EXCEPT ![c] = NoRequest]
  /\ session' = [session EXCEPT ![c] = 0]
  /\ posts' = [posts EXCEPT ![c] = 0]
  /\ result' = [result EXCEPT ![c] = NoResult]
  /\ outcome' = [outcome EXCEPT ![c] = NoOutcome]
  /\ UNCHANGED <<self, sessions>>

\* ---------------------------------------------------------- specifications
AllIdle == \A c \in Calls : pc[c] = "idle"

\* one call at a time, arguments and answers from the full input sets
Init == InitWith(Tokens, Amounts)

Next ==
  \E c \in Calls :
    \/ AllIdle /\ \E o \in OrderIds, kw \in Kwargs(ExtKeys) : Purchase(c, o, kw)
    \/ AllIdle /\ \E t \in TransIds, cu \in CurrencyArgs : Verify(c, t, cu)
    \/ AllIdle /\ \E t \in TransIds : Refund(c, t)
    \/ Post(c)
    \/ \E res \in Results(Codes, TransIds) : PurchaseRespond(c, res)
    \/ \E res \in Results(Codes, TransIds) : VerifyRespond(c, res)
    \/ \E res \in Results(Codes, TransIds) : RefundRespond(c, res)
    \/ Fault(c)
    \/ Cancel(c)
    \/ Complete(c)

Spec == Init /\ [][Next]_vars

\* calls of one client interleaved freely, over smaller input sets
ConcTokens == {"tokA"}
ConcAmounts == {"1000"}
ConcKeys == {"phone", "email"}
ConcCurrencyArgs == {"IRT"}
ConcTransIds == {"abc123"}
ConcCodes == {-1, 0, -90, -27}

InitConcurrent == InitWith(ConcTokens, ConcAmounts)

NextConcurrent ==
  \E c \in Calls :
    \/ \E o \in OrderIds, kw \in Kwargs(ConcKeys) : Len(kw) = 1 /\ Purchase(c, o, kw)
    \/ \E t \in ConcTransIds, cu \in ConcCurrencyArgs : Verify(c, t, cu)
    \/ \E t \in ConcTransIds : Refund(c, t)
    \/ Post(c)
    \/ \E res \in Results(ConcCodes, ConcTransIds) : PurchaseRespond(c, res)
    \/ \E res \in Results(ConcCodes, ConcTransIds) : VerifyRespond(c, res)
    \/ \E res \in Results(ConcCodes, ConcTransIds) : RefundRespond(c, res)
    \/ Fault(c)
    \/ Cancel(c)
    \/ Complete(c)

SpecConcurrent == InitConcurrent /\ [][NextConcurrent]_vars

\* =================================================================== claims
\* The accepted keyword names.  The specification writes them in camel case
\* (customJsonFields, payerName, payerDesc, autoVerify, allowedCard); the
\* program's keyword arguments are these.
FixedSet ==
  {"currency", "phone", "custom_json_fields", "payer_name", "payer_desc",
   "auto_verify", "allowed_card"}

HasKeyOutside(kw) == \E i \in 1..Len(kw) : kw[i][1] \notin FixedSet

Answered(c, op) == pc[c] = "done" /\ call[c].op = op /\ result[c].got

Includes(msg, part) == \E i \in 1..Len(msg) : msg[i] = part

RaisedType(c, type) == outcome[c].kind = "raise" /\ outcome[c].type = type

ReturnedTrue(c) ==
  outcome[c].kind = "return" /\ outcome[c].type = "bool" /\ outcome[c].value = "True"

C2_PurchaseTable ==
  \A c \in Calls :
    Answered(c, "purchase") =>
      LET code == result[c].code IN
      /\ code = -1 =>
           /\ outcome[c].kind = "return"
           /\ outcome[c].type = "str"
           /\ outcome[c].value = result[c].trans_id
      /\ code \in {-32, -73} => RaisedType(c, "InvalidCallbackUri")
      /\ code \in {-33, -35, -38, -39, -40, -47} =>
           /\ RaisedType(c, "InvalidToken")
           /\ Includes(outcome[c].msg, self.token)
           /\ Includes(outcome[c].msg, ToString(code))

C2_Witness ==
  \E c \in Calls :
    /\ Answered(c, "purchase") /\ result[c].code = -47
    /\ RaisedType(c, "InvalidToken")

C4_RefundTable ==
  \A c \in Calls :
    Answered(c, "refund") =>
      LET code == result[c].code IN
      /\ code = -90 => ReturnedTrue(c)
      /\ code \in {-91, -92} => RaisedType(c, "RefundFailed")
      /\ code = -93 => RaisedType(c, "NotEnoughBalance")
      /\ code = -27 => RaisedType(c, "InvalidTransId")
      /\ outcome[c].kind = "return" => code = -90

C4_Witness ==
  \E c \in Calls :
    /\ Answered(c, "refund") /\ result[c].code = -93
    /\ RaisedType(c, "NotEnoughBalance")

\* the codes each operation's table names
OwnTable(op) ==
  CASE op = "purchase" -> {-1, -32, -73, -33, -35, -38, -39, -40, -47}
    [] op = "verify" -> {0, -2, -4, -24, -25, -27}
    [] op = "refund" -> {-90, -91, -92, -93, -27}

\* C5: an operation answered with a code outside its own table raises
\* UnknownHandled with the raw code in the message, whichever operation it is
\* and also when another operation's table names the code.
C5_UnknownCodeUnhandled ==
  \A c \in Calls :
    (pc[c] = "done" /\ result[c].got /\ result[c].code \notin OwnTable(call[c].op)) =>
      /\ RaisedType(c, "UnknownHandled")
      /\ Includes(outcome[c].msg, ToString(result[c].code))

\* verify answered with the success code of purchase
C5_Witness ==
  \E c \in Calls :
    /\ Answered(c, "verify") /\ result[c].code = -1
    /\ RaisedType(c, "UnknownHandled")

\* the outcome type the verify table gives a code
VerifyTableType(code) ==
  CASE code = 0 -> "bool"
    [] code = -2 -> "PurchaseDeclined"
    [] code = -4 -> "PurchaseCanceled"
    [] code = -24 -> "InvalidPrice"
    [] code = -25 -> "PurchaseAlreadyMade"
    [] code = -27 -> "InvalidTransId"
    [] OTHER -> "UnknownHandled"

\* C6: a verify request carries a currency field exactly when the argument is
\* IRT or IRR, with that value; otherwise its fields are api_key, amount and
\* trans_id alone; in both cases the call reaches the network and an answered
\* call's outcome is the one its code gives.
C6_VerifyCurrencyFiltered ==
  \A c \in Calls :
    call[c].op = "verify" =>
      LET cur == call[c].currency
          base == <<  <<"api_key", self.token>>,
                      <<"amount", self.amount>>,
                      <<"trans_id", call[c].id>>  >>
      IN
      /\ cur \in {"IRT", "IRR"} => request[c].data = Append(base, <<"currency", cur>>)
      /\ cur \notin {"IRT", "IRR"} => request[c].data = base
      /\ session[c] # 0
      /\ pc[c] = "done" => (posts[c] = 1 \/ outcome[c].type \in {"ClientError", "CancelledError"})
      /\ Answered(c, "verify") => outcome[c].type = VerifyTableType(result[c].code)

C6_Witness ==
  \E c \in Calls :
    /\ Answered(c, "verify") /\ call[c].currency = "USD"
    /\ Len(request[c].data) = 3
    /\ ReturnedTrue(c)

\* C7: a refund request goes to the verify endpoint, and its fields are those
\* of verify for the same trans_id without currency, in the same order, then
\* refund_request=yes_money_back.
C7_RefundIsVerifyPlusFlag ==
  \A c \in Calls :
    call[c].op = "refund" =>
      /\ request[c].url = VerifyUrl
      /\ request[c].data =
           Append(VerifyData(self, call[c].id, "None"),
                  <<"refund_request", "yes_money_back">>)
      /\ Len(request[c].data) = 4

C7_Witness ==
  \E c \in Calls :
    /\ call[c].op = "refund" /\ pc[c] = "awaiting" /\ posts[c] = 1

\* C8: no step of any call, under any interleaving, changes the client's
\* token, amount or callback_uri or gives the client another attribute.
C8_ClientUnchanged == [][self' = self]_vars

\* a purchase has returned a trans_id while another call is in flight
C8_Witness ==
  \E c, d \in Calls :
    /\ c # d
    /\ Answered(c, "purchase") /\ outcome[c].kind = "return"
    /\ pc[d] = "awaiting"
    /\ DOMAIN self = {"token", "amount", "callback_uri"}

\* C9: a call never issues a second POST: an awaiting or answered call has
\* issued exactly one, and an answered call has ended with its outcome.
C9_ExactlyOnePost ==
  \A c \in Calls :
    /\ posts[c] <= 1
    /\ pc[c] = "awaiting" => posts[c] = 1
    /\ result[c].got => (pc[c] = "done" /\ posts[c] = 1 /\ outcome[c].kind # "none")

C9_Witness ==
  \E c \in Calls :
    /\ Answered(c, "refund") /\ result[c].code = -91
    /\ RaisedType(c, "RefundFailed") /\ posts[c] = 1

InFlight(c) == pc[c] \in {"opened", "awaiting"}

\* C10: calls in flight hold pairwise different sessions, and the open
\* sessions are exactly those of the calls in flight: a call that has ended,
\* however it ended, has left none open.
C10_SessionPerCall ==
  /\ \A c, d \in Calls : (InFlight(c) /\ InFlight(d) /\ c # d) => session[c] # session[d]
  /\ sessions = { session[c] : c \in { d \in Calls : InFlight(d) } }
  /\ \A c \in Calls : InFlight(c) => session[c] # 0

\* one call cancelled after its POST while another is in flight
C10_Witness ==
  \E c, d \in Calls :
    /\ c # d
    /\ pc[c] = "done" /\ RaisedType(c, "CancelledError") /\ posts[c] = 1
    /\ InFlight(d)

====
